---- MODULE Spec2Model ----
(***************************************************************************)
(* State-machine model of the resilient batch and sync orchestration layer *)
(* of GCALtoFMPTime: processWithGracefulDegradation, retryOperation,       *)
(* categorizeError (src/errorHandling.js), the calendar batch of           *)
(* processCalendarEventsWithErrorHandling and the once-per-day refresh     *)
(* guard smartSyncClientsToUIDSheet (src/smartClientSync.js), and of the   *)
(* processor's helpers: createFileMakerRecord (src/fmpPost.js, auth.js),   *)
(* matchClientFromTitle (src/clientMap.js), findUnifiedEventMatch and      *)
(* generateUnifiedBillingDescription (src/filemakerSync.js),               *)
(* generateUnifiedSummary (src/unifiedSummaryGenerator.js) and             *)
(* _calculateRoundedDuration (src/calendarUtils.js).                       *)
(*                                                                         *)
(* Strings are sequences of tokens; String.prototype.includes is the       *)
(* contiguous-subsequence test Includes.                                   *)
(***************************************************************************)
EXTENDS Integers, Sequences, FiniteSets, TLC

VARIABLES
    \* processWithGracefulDegradation(items, processor, options)
    items,          \* per item, what the processor does when invoked on it
    options,        \* the options argument
    maxFailures,    \* const maxFailures (errorHandling.js:231)
    results,        \* const results (errorHandling.js:222-229)
    i,              \* loop index (0-based, as in the source)
    pc,             \* "start" | "loop" | "done" (returned) | "threw"
    invoked,        \* indexes on which the processor was invoked, in call order
    \* retryOperation(operation, maxRetries, delayMs)
    operation,      \* what each successive invocation of operation() does
    maxRetries,     \* the maxRetries argument
    initialDelay,   \* the delayMs argument as passed by the caller
    delayMs,        \* the delayMs parameter (reassigned by the backoff)
    attempt,        \* loop variable attempt
    rpc,            \* "start" | "try" | "sleep" | "returned" | "threw"
    rresult,        \* value returned / error thrown to the caller
    trace,          \* observable events of the run: operation calls and sleeps
    \* smartSyncClientsToUIDSheet, run by several library users
    sheet,          \* the UID_Map sheet: cell A1, header row, client rows
    now,            \* the current instant (new Date()), in ticks
    faultsOn,       \* whether external calls may fault in this run
    cpc,            \* per caller: position inside smartSyncClientsToUIDSheet
    call,           \* per caller: locals of the call in progress
    calls,          \* calls started so far
    log,            \* per caller: one entry per returned call
    refreshLog,     \* per local day: executions of syncClientsToUIDSheetWithTimestamp
    \* processCalendarEventsWithErrorHandling
    elapsed,        \* seconds since startTime
    startedAt,      \* per processor invocation: seconds elapsed when it started
    writeLog,       \* the createFileMakerRecord calls made, in call order
    calStatus,      \* status of the returned object, "threw", "none" before
    returned,       \* counts carried by the returned object
    \* createFileMakerRecord (fmpPost.js) and the FileMaker sessions (auth.js)
    fmSessions,     \* session tokens open at the FileMaker server
    fmpc,           \* position inside createFileMakerRecord
    fmToken,        \* const token of the call in progress
    fmResponse,     \* createResponse of the call in progress
    fmCalls,        \* calls of createFileMakerRecord started so far
    fmLog,          \* per finished call: how it ended and the sessions left open
    \* matchClientFromTitle, findUnifiedEventMatch, generateUnifiedSummary
    title,          \* the event title, a string of characters
    clientMap,      \* the person table: entries in insertion order
    events,         \* the unified event vocabulary, in table order
    match,          \* result of matchClientFromTitle
    eventMatch,     \* result of findUnifiedEventMatch
    summary,        \* result of generateUnifiedSummary
    lookups,        \* how the reference tables answered generateUnifiedSummary
    tpc,            \* position of the text pipeline
    \* _calculateRoundedDuration(start, end)
    start,          \* start of the event, in minutes
    end,            \* end of the event, in minutes
    duration,       \* the returned hours, in tenths
    dpc,            \* "start" | "returned"
    \* categorizeError(error)
    error,          \* error.message of the argument
    errorInfo,      \* the returned errorInfo
    epc,            \* "start" | "returned"
    \* the setup of processCalendarEventsWithErrorHandling (lines 290-299)
    store,          \* the person rows of the UID_Map sheet
    loads,          \* whether each successive read of the sheet succeeds
    refreshed       \* whether smartSyncClientsToUIDSheet rewrote the sheet

batchVars == <<items, options, maxFailures, results, i, pc, invoked>>
retryVars == <<operation, maxRetries, initialDelay, delayMs, attempt, rpc, rresult, trace>>
syncVars == <<sheet, now, faultsOn, cpc, call, calls, log, refreshLog>>
calVars == <<elapsed, startedAt, writeLog, calStatus, returned>>
fmVars == <<fmSessions, fmpc, fmToken, fmResponse, fmCalls, fmLog>>
textVars == <<title, clientMap, events, match, eventMatch, summary, lookups, tpc>>
durVars == <<start, end, duration, dpc>>
errVars == <<error, errorInfo, epc>>
setupVars == <<store, loads, refreshed>>
moreVars == <<errVars, setupVars>>
dataVars == <<fmVars, textVars, durVars, moreVars>>
vars == <<batchVars, retryVars, syncVars, calVars, dataVars>>

----------------------------------------------------------------------------
\* Bounds of the model
MaxItems == 4           \* longest item list
MaxEvents == 4          \* most calendar events in a run
MaxFailuresOpt == 2     \* largest options.maxFailures supplied by a caller
MaxRetriesArg == 3      \* largest maxRetries argument
NumCallers == 2         \* library users sharing the UID_Map sheet
MaxCalls == 2           \* calls of smartSyncClientsToUIDSheet in a run
NumClients == 2         \* active clients returned by FileMaker
TicksPerDay == 3        \* clock resolution: ticks per calendar day
TZBehind == 1           \* script time zone, ticks behind UTC
MaxTick == 5            \* last instant of a run
MaxWrites == 3          \* calls of createFileMakerRecord in a run
MaxMinutes == 72        \* longest event, in minutes
MaxTitleLen == 3        \* longest event title, in characters
MaxPersons == 2         \* most entries of the person table
MaxEntries == 2         \* most entries of the event vocabulary
MaxKeywords == 2        \* most keywords of a vocabulary entry
MaxTemplateLen == 2     \* longest description template, in words
MaxFaultyEvents == 2    \* events of a run whose writes meet every kind of answer
MaxMessageLen == 3      \* longest error message, in words

----------------------------------------------------------------------------
\* Strings and thrown values

\* s.includes(p): p occurs in s as a contiguous run
Includes(s, p) ==
    \E k \in 0..(Len(s) - Len(p)) :
        \A j \in 1..Len(p) : s[k + j] = p[j]

\* results of the matching functions when nothing matches (null)
NoMatch == [found |-> FALSE, name |-> <<>>, uid |-> 0]
NoEventMatch == [found |-> FALSE, entry |-> 0, matchedKeyword |-> <<>>, keywordLength |-> 0]

\* 'Event filtered out: all-day or multi-day event'
MsgFiltered == <<"Event", "filtered", "out", ":", "all-day", "or", "multi-day", "event">>
\* 'Transient failure'
MsgTransient == <<"Transient", "failure">>
\* 'FileMaker record creation failed: ' + body
MsgFileMaker == <<"FileMaker", "record", "creation", "failed", ":">>
\* `Approaching timeout limit at event ${index}: ${currentRuntime}s runtime`
MsgTimeout == <<"Approaching", "timeout", "limit", "at", "event">>

\* the literal 'Event filtered out' tested at errorHandling.js:249
FilteredMarker == <<"Event", "filtered", "out">>

\* new Error(m): a thrown value with a message property
Error(m) == [hasMessage |-> TRUE, message |-> m]
\* a thrown value whose .message is undefined (throw 'text', throw {code: 1})
NoMessageValue == [hasMessage |-> FALSE, message |-> <<>>]

----------------------------------------------------------------------------
\* categorizeError (errorHandling.js:135-178), defined on a message

\* mutant: the network test moved in front of the others
categorizeError_NetworkFirst(m) ==
    IF Includes(m, <<"network">>) \/ Includes(m, <<"fetch">>)
    THEN [message |-> m, category |-> "NETWORK_ERROR", severity |-> "MEDIUM", retryable |-> TRUE]
    ELSE IF Includes(m, <<"timeout">>) \/ Includes(m, <<"execution", "time">>)
    THEN [message |-> m, category |-> "TIMEOUT", severity |-> "HIGH", retryable |-> FALSE]
    ELSE IF Includes(m, <<"Secret", "Manager">>) \/ Includes(m, <<"OAuth">>)
    THEN [message |-> m, category |-> "SECRET_MANAGER_ERROR", severity |-> "HIGH", retryable |-> TRUE]
    ELSE IF Includes(m, <<"FileMaker">>) \/ Includes(m, <<"authentication">>)
    THEN [message |-> m, category |-> "FILEMAKER_ERROR", severity |-> "HIGH", retryable |-> TRUE]
    ELSE IF Includes(m, <<"Calendar">>) \/ Includes(m, <<"getEvents">>)
    THEN [message |-> m, category |-> "CALENDAR_ERROR", severity |-> "HIGH", retryable |-> TRUE]
    ELSE IF Includes(m, <<"Sheets">>) \/ Includes(m, <<"Spreadsheet">>)
    THEN [message |-> m, category |-> "SHEETS_ERROR", severity |-> "HIGH", retryable |-> TRUE]
    ELSE [message |-> m, category |-> "PROCESSING_ERROR", severity |-> "MEDIUM", retryable |-> FALSE]

categorizeError(m) ==
    IF Includes(m, <<"timeout">>) \/ Includes(m, <<"execution", "time">>)
    THEN [message |-> m, category |-> "TIMEOUT", severity |-> "HIGH", retryable |-> FALSE]
    ELSE IF Includes(m, <<"Secret", "Manager">>) \/ Includes(m, <<"OAuth">>)
    THEN [message |-> m, category |-> "SECRET_MANAGER_ERROR", severity |-> "HIGH", retryable |-> TRUE]
    ELSE IF Includes(m, <<"FileMaker">>) \/ Includes(m, <<"authentication">>)
    THEN [message |-> m, category |-> "FILEMAKER_ERROR", severity |-> "HIGH", retryable |-> TRUE]
    ELSE IF Includes(m, <<"Calendar">>) \/ Includes(m, <<"getEvents">>)
    THEN [message |-> m, category |-> "CALENDAR_ERROR", severity |-> "HIGH", retryable |-> TRUE]
    ELSE IF Includes(m, <<"Sheets">>) \/ Includes(m, <<"Spreadsheet">>)
    THEN [message |-> m, category |-> "SHEETS_ERROR", severity |-> "HIGH", retryable |-> TRUE]
    ELSE IF Includes(m, <<"network">>) \/ Includes(m, <<"fetch">>)
    THEN [message |-> m, category |-> "NETWORK_ERROR", severity |-> "MEDIUM", retryable |-> TRUE]
    ELSE [message |-> m, category |-> "PROCESSING_ERROR", severity |-> "MEDIUM", retryable |-> FALSE]

----------------------------------------------------------------------------
\* processWithGracefulDegradation (errorHandling.js:221-276)

Undefined == "undefined"

\* what processor(items[i], i) can do
ReturnsValue == [kind |-> "value", thrown |-> NoMessageValue]
ReturnsNull == [kind |-> "null", thrown |-> NoMessageValue]
Throws(e) == [kind |-> "throw", thrown |-> e]

ProcessorBehaviours ==
    {ReturnsValue, ReturnsNull,
     Throws(Error(MsgTransient)), Throws(Error(MsgFiltered)), Throws(NoMessageValue)}

\* options: {} | {maxFailures: n} | {stopOnExcessiveFailures: b} | both
OptionValues ==
    {o \in [hasMaxFailures : BOOLEAN, maxFailures : 0..MaxFailuresOpt,
            stopOnExcessiveFailures : {Undefined, "true", "false"}] :
        ~o.hasMaxFailures => o.maxFailures = 0}

DefaultOptions ==
    [hasMaxFailures |-> FALSE, maxFailures |-> 0, stopOnExcessiveFailures |-> Undefined]

\* Math.ceil(n * 0.5)
CeilHalf(n) == (n + 1) \div 2

\* options.maxFailures || Math.ceil(items.length * 0.5)   (0 is falsy)
MaxFailuresOf(opts, n) ==
    IF ~opts.hasMaxFailures \/ opts.maxFailures = 0
    THEN CeilHalf(n)
    ELSE opts.maxFailures

\* options.stopOnExcessiveFailures !== false
stopOnExcessiveFailures(opts) == opts.stopOnExcessiveFailures # "false"

\* mutant: the stop test written with >= instead of >
ExcessiveFailures_AtQuota(opts, failed, maxF) ==
    stopOnExcessiveFailures(opts) /\ failed >= maxF

\* if (stopOnExcessiveFailures && results.failed > maxFailures) break;
ExcessiveFailures(opts, failed, maxF) ==
    stopOnExcessiveFailures(opts) /\ failed > maxF

EmptyResults(n) ==
    [total |-> n, successful |-> 0, failed |-> 0, skipped |-> 0,
     errors |-> <<>>, results |-> <<>>]

\* the body of the try block after processor() returned r (lines 239-245)
RecordReturn(res, idx, b) ==
    IF b.kind = "null"
    THEN [res EXCEPT !.results = Append(@, [index |-> idx, status |-> "skipped"]),
                     !.skipped = @ + 1]
    ELSE [res EXCEPT !.results = Append(@, [index |-> idx, status |-> "success"]),
                     !.successful = @ + 1]

\* mutant: the catch block without the 'Event filtered out' test
RecordThrow_CountAll(res, idx, e) ==
    [res EXCEPT !.errors = Append(@, [index |-> idx, error |-> categorizeError(e.message)]),
                !.results = Append(@, [index |-> idx, status |-> "failed"]),
                !.failed = @ + 1]

\* the catch block for an error that has a message (lines 249-268)
RecordThrow(res, idx, e) ==
    IF ~Includes(e.message, FilteredMarker)
    THEN [res EXCEPT !.errors = Append(@, [index |-> idx, error |-> categorizeError(e.message)]),
                     !.results = Append(@, [index |-> idx, status |-> "failed"]),
                     !.failed = @ + 1]
    ELSE [res EXCEPT !.skipped = @ + 1,
                     !.results = Append(@, [index |-> idx, status |-> "skipped"])]

\* one pass of the for loop with processor outcome b (lines 234-270)
LoopBody(b) ==
    /\ invoked' = Append(invoked, i)
    /\ IF b.kind # "throw"
       THEN /\ results' = RecordReturn(results, i, b)
            /\ i' = i + 1
            /\ pc' = "loop"
       ELSE IF ~b.thrown.hasMessage
       THEN \* error.message.includes(...) on undefined: TypeError leaves the catch
            /\ pc' = "threw"
            /\ UNCHANGED <<results, i>>
       ELSE /\ results' = RecordThrow(results, i, b.thrown)
            /\ IF /\ ~Includes(b.thrown.message, FilteredMarker)
                  /\ ExcessiveFailures(options, results'.failed, maxFailures)
               THEN pc' = "done" /\ i' = i          \* break, then return results
               ELSE pc' = "loop" /\ i' = i + 1

\* entry: lines 222-232
processWithGracefulDegradation ==
    /\ pc = "start"
    /\ results' = EmptyResults(Len(items))
    /\ maxFailures' = MaxFailuresOf(options, Len(items))
    /\ i' = 0
    /\ pc' = "loop"
    /\ UNCHANGED <<items, options, invoked>>

processItem ==
    /\ pc = "loop"
    /\ i < Len(items)
    /\ LoopBody(items[i + 1])
    /\ UNCHANGED <<items, options, maxFailures>>

\* loop condition false: log the summary and return results (lines 272-275)
returnResults ==
    /\ pc = "loop"
    /\ i >= Len(items)
    /\ pc' = "done"
    /\ UNCHANGED <<items, options, maxFailures, results, i, invoked>>

BatchIdle ==
    /\ items = <<>> /\ options = DefaultOptions
    /\ maxFailures = 0 /\ results = EmptyResults(0) /\ i = 0 /\ pc = "idle" /\ invoked = <<>>

----------------------------------------------------------------------------
\* retryOperation (errorHandling.js:110-127)

\* what one invocation of operation() can do
OperationOutcomes ==
    {[kind |-> "value", value |-> "success", thrown |-> NoMessageValue],
     [kind |-> "value", value |-> "other", thrown |-> NoMessageValue],
     [kind |-> "throw", value |-> "", thrown |-> Error(MsgTransient)],
     [kind |-> "throw", value |-> "", thrown |-> Error(MsgFileMaker)]}

\* call-site and test values of delayMs (errorHandling.js:291,302; testSuite.js:688)
DelayValues == {100, 500, 1000}

\* mutant: no exponential backoff
Backoff_Constant(d) == d

\* delayMs *= 2
Backoff(d) == d * 2

\* mutant: the final-attempt test off by one
LastAttempt_OffByOne(a, m) == a + 1 = m

\* if (attempt === maxRetries) throw error
LastAttempt(a, m) == a = m

\* number of operation() invocations so far
Calls == Cardinality({k \in 1..Len(trace) : trace[k].ev = "call"})

NoResult == [kind |-> "none", value |-> "", thrown |-> NoMessageValue]

\* entry: let attempt = 1; first test of attempt <= maxRetries
retryOperation ==
    /\ rpc = "start"
    /\ attempt' = 1
    /\ IF 1 <= maxRetries
       THEN rpc' = "try" /\ rresult' = rresult
       ELSE \* loop never entered: falls off the end, returns undefined
            rpc' = "returned" /\ rresult' = [kind |-> "value", value |-> Undefined, thrown |-> NoMessageValue]
    /\ UNCHANGED <<operation, maxRetries, initialDelay, delayMs, trace>>

\* try { return operation(); } catch (error) { ... }
retryAttempt ==
    /\ rpc = "try"
    /\ LET o == operation[Calls + 1]
       IN /\ trace' = Append(trace, [ev |-> "call", ok |-> (o.kind = "value"), ms |-> 0])
          /\ IF o.kind = "value"
             THEN rpc' = "returned" /\ rresult' = o
             ELSE IF LastAttempt(attempt, maxRetries)
             THEN rpc' = "threw" /\ rresult' = o
             ELSE rpc' = "sleep" /\ rresult' = rresult
    /\ UNCHANGED <<operation, maxRetries, initialDelay, delayMs, attempt>>

\* Utilities.sleep(delayMs); delayMs *= 2; attempt++ and the loop test
retrySleep ==
    /\ rpc = "sleep"
    /\ trace' = Append(trace, [ev |-> "sleep", ok |-> TRUE, ms |-> delayMs])
    /\ delayMs' = Backoff(delayMs)
    /\ attempt' = attempt + 1
    /\ IF attempt + 1 <= maxRetries
       THEN rpc' = "try" /\ rresult' = rresult
       ELSE rpc' = "returned" /\ rresult' = [kind |-> "value", value |-> Undefined, thrown |-> NoMessageValue]
    /\ UNCHANGED <<operation, maxRetries, initialDelay>>

RetryIdle ==
    /\ operation = <<>> /\ maxRetries = 0 /\ initialDelay = 0 /\ delayMs = 0 /\ attempt = 0
    /\ rpc = "idle" /\ rresult = NoResult /\ trace = <<>>

----------------------------------------------------------------------------
\* Dates (smartClientSync.js:58-65, 99-107)

\* year, month and date of successive local calendar days
Calendar ==
    <<[y |-> 2024, m |-> 11, d |-> 30], [y |-> 2024, m |-> 11, d |-> 31],
      [y |-> 2025, m |-> 0, d |-> 1], [y |-> 2025, m |-> 0, d |-> 2],
      [y |-> 2025, m |-> 0, d |-> 3], [y |-> 2025, m |-> 0, d |-> 4]>>

\* a Date object: an instant, or Invalid Date
DateOf(t) == [valid |-> TRUE, t |-> t]
InvalidDate == [valid |-> FALSE, t |-> 0]

\* the local calendar day a valid Date falls on
LocalDay(date) == (date.t - TZBehind) \div TicksPerDay

getFullYear(date) == Calendar[LocalDay(date) + 1].y
getMonth(date) == Calendar[LocalDay(date) + 1].m
getDate(date) == Calendar[LocalDay(date) + 1].d

\* values of getLastSyncTimestamp(): null, an ISO string, or other text
Null == [kind |-> "null", day |-> 0, tick |-> 0]
HeaderText == [kind |-> "text", day |-> 0, tick |-> 0]

\* Date.prototype.toISOString: the UTC fields of the instant
toISOString(date) ==
    [kind |-> "iso", day |-> date.t \div TicksPerDay, tick |-> date.t % TicksPerDay]

\* new Date(string)
ParseDate(str) ==
    IF str.kind = "iso" THEN DateOf(str.day * TicksPerDay + str.tick) ELSE InvalidDate

\* contents of cell A1
EmptyCell == [type |-> "empty", t |-> 0]
TextCell == [type |-> "text", t |-> 0]
DateCell(t) == [type |-> "date", t |-> t]

\* getLastSyncTimestamp, lines 99-107: the value made of cell A1
TimestampOf(cell) ==
    IF cell.type = "date" THEN toISOString(DateOf(cell.t))
    ELSE IF cell.type = "text" THEN HeaderText
    ELSE Null

\* mutant: freshness as a rolling 24-hour window
isSameDay_Rolling24h(today, syncDate) ==
    syncDate.valid /\ today.t - syncDate.t < TicksPerDay

\* const isSameDay = ... (lines 62-65); every getter of Invalid Date is NaN
isSameDay(today, syncDate) ==
    /\ syncDate.valid
    /\ getFullYear(today) = getFullYear(syncDate)
    /\ getMonth(today) = getMonth(syncDate)
    /\ getDate(today) = getDate(syncDate)

----------------------------------------------------------------------------
\* smartSyncClientsToUIDSheet (smartClientSync.js:9-194)

Callers == 1..NumCallers

\* outcomes of an external call: FALSE = succeeds, TRUE = throws
FaultChoices == IF faultsOn THEN {FALSE, TRUE} ELSE {FALSE}

NoCall ==
    [before |-> EmptyCell, lastSync |-> Null, today |-> 0,
     faulted |-> FALSE, refreshes |-> 0, clients |-> 0, row |-> 0]

\* a complete UID_Map sheet as a refresh leaves it
SheetWith(cell) == [A1 |-> cell, header |-> TRUE, rows |-> 1..NumClients]

\* the call returns status st with locals rec: one log entry, caller idle
Return(c, st, rec) ==
    /\ log' = [log EXCEPT ![c] =
                  Append(@, [status |-> st, before |-> rec.before,
                             after |-> sheet'.A1, today |-> rec.today,
                             faulted |-> rec.faulted, refreshes |-> rec.refreshes])]
    /\ cpc' = [cpc EXCEPT ![c] = "idle"]
    /\ call' = [call EXCEPT ![c] = NoCall]

\* a step of the refresh throws: lines 190-193 rethrow, 36-41 return ERROR
ReturnError(c, rec) == Return(c, "ERROR", [rec EXCEPT !.faulted = TRUE])

\* a user (or the 3 PM trigger) calls smartSyncClientsToUIDSheet()
smartSyncClientsToUIDSheet(c) ==
    /\ cpc[c] = "idle"
    /\ calls < MaxCalls
    /\ calls' = calls + 1
    /\ call' = [call EXCEPT ![c] = [NoCall EXCEPT !.before = sheet.A1]]
    /\ cpc' = [cpc EXCEPT ![c] = "check"]
    /\ UNCHANGED <<sheet, now, faultsOn, log, refreshLog>>

\* isClientDataFreshToday (lines 49-75) with getLastSyncTimestamp (81-113):
\* a fault while reading is caught there and read as "never synced"
isClientDataFreshToday(c) ==
    /\ cpc[c] = "check"
    /\ \E f \in FaultChoices :
          LET lastSync == IF f THEN Null ELSE TimestampOf(sheet.A1)
              fresh == IF lastSync = Null THEN FALSE
                       ELSE isSameDay(DateOf(now), ParseDate(lastSync))
          IN /\ call' = [call EXCEPT ![c].lastSync = lastSync, ![c].today = now,
                                     ![c].faulted = @ \/ f]
             /\ cpc' = [cpc EXCEPT ![c] = IF fresh THEN "skip" ELSE "sync"]
    /\ UNCHANGED <<sheet, now, faultsOn, calls, log, refreshLog>>

\* lines 15-20: return SKIPPED (lastSync is read once more, faults caught)
returnSkipped(c) ==
    /\ cpc[c] = "skip"
    /\ sheet' = sheet
    /\ \E f \in FaultChoices :
          Return(c, "SKIPPED", [call[c] EXCEPT !.faulted = @ \/ f])
    /\ UNCHANGED <<now, faultsOn, calls, refreshLog>>

\* syncClientsToUIDSheetWithTimestamp steps 1-2 (lines 119-161): sheet id
\* from Secret Manager, FileMaker token, client query, logout
fetchClients(c) ==
    /\ cpc[c] = "sync"
    /\ sheet' = sheet
    /\ refreshLog' = [refreshLog EXCEPT ![LocalDay(DateOf(now))] = @ + 1]
    /\ LET rec == [call[c] EXCEPT !.refreshes = @ + 1, !.clients = NumClients]
       IN \E f \in FaultChoices :
             IF f THEN ReturnError(c, rec)
             ELSE /\ call' = [call EXCEPT ![c] = rec]
                  /\ cpc' = [cpc EXCEPT ![c] = "clear"]
                  /\ UNCHANGED log
    /\ UNCHANGED <<now, faultsOn, calls>>

\* lines 164-165: open the sheet, sheet.clearContents()
clearContents(c) ==
    /\ cpc[c] = "clear"
    /\ \E f \in FaultChoices :
          IF f THEN sheet' = sheet /\ ReturnError(c, call[c])
          ELSE /\ sheet' = [A1 |-> EmptyCell, header |-> FALSE, rows |-> {}]
               /\ cpc' = [cpc EXCEPT ![c] = "stamp"]
               /\ UNCHANGED <<call, log>>
    /\ UNCHANGED <<now, faultsOn, calls, refreshLog>>

\* line 168: sheet.getRange('A1').setValue(new Date())
setTimestamp(c) ==
    /\ cpc[c] = "stamp"
    /\ \E f \in FaultChoices :
          IF f THEN sheet' = sheet /\ ReturnError(c, call[c])
          ELSE /\ sheet' = [sheet EXCEPT !.A1 = DateCell(now)]
               /\ cpc' = [cpc EXCEPT ![c] = "header"]
               /\ UNCHANGED <<call, log>>
    /\ UNCHANGED <<now, faultsOn, calls, refreshLog>>

\* lines 169-175: B1 note, header row A2:C2, let row = 3
setHeaders(c) ==
    /\ cpc[c] = "header"
    /\ \E f \in FaultChoices :
          IF f THEN sheet' = sheet /\ ReturnError(c, call[c])
          ELSE /\ sheet' = [sheet EXCEPT !.header = TRUE]
               /\ call' = [call EXCEPT ![c].row = 1]
               /\ cpc' = [cpc EXCEPT ![c] = "rows"]
               /\ UNCHANGED log
    /\ UNCHANGED <<now, faultsOn, calls, refreshLog>>

\* lines 176-184: one pass of clients.forEach, writing one client row
setClientRow(c) ==
    /\ cpc[c] = "rows"
    /\ call[c].row <= call[c].clients
    /\ \E f \in FaultChoices :
          IF f THEN sheet' = sheet /\ ReturnError(c, call[c])
          ELSE /\ sheet' = [sheet EXCEPT !.rows = @ \cup {call[c].row}]
               /\ call' = [call EXCEPT ![c].row = @ + 1]
               /\ UNCHANGED <<cpc, log>>
    /\ UNCHANGED <<now, faultsOn, calls, refreshLog>>

\* lines 186-188 and 28-34: the refresh returns, status SUCCESS
returnSuccess(c) ==
    /\ cpc[c] = "rows"
    /\ call[c].row > call[c].clients
    /\ sheet' = sheet
    /\ Return(c, "SUCCESS", call[c])
    /\ UNCHANGED <<now, faultsOn, calls, refreshLog>>

\* time passes
Tick ==
    /\ now < MaxTick
    /\ now' = now + 1
    /\ UNCHANGED <<sheet, faultsOn, cpc, call, calls, log, refreshLog>>

SyncIdle ==
    /\ sheet = SheetWith(EmptyCell) /\ now = 0 /\ faultsOn = FALSE
    /\ cpc = [c \in {} |-> "idle"] /\ call = [c \in {} |-> NoCall]
    /\ calls = 0 /\ log = [c \in {} |-> <<>>] /\ refreshLog = [d \in {} |-> 0]

\* the sheet before the run: never synced, legacy layout (A1 is a header
\* cell), or stamped by an earlier refresh
InitSync(users, faults) ==
    /\ now = TicksPerDay
    /\ sheet \in {SheetWith(EmptyCell), SheetWith(TextCell)}
                 \cup {SheetWith(DateCell(t)) : t \in TZBehind..TicksPerDay}
    /\ faultsOn = faults
    /\ cpc = [c \in users |-> "idle"]
    /\ call = [c \in users |-> NoCall]
    /\ calls = 0
    /\ log = [c \in users |-> <<>>]
    /\ refreshLog = [d \in 0..LocalDay(DateOf(MaxTick)) |-> 0]

NextSync ==
    \/ \E c \in DOMAIN cpc : smartSyncClientsToUIDSheet(c) /\ UNCHANGED <<batchVars, retryVars, calVars, dataVars>>
    \/ \E c \in DOMAIN cpc : isClientDataFreshToday(c) /\ UNCHANGED <<batchVars, retryVars, calVars, dataVars>>
    \/ \E c \in DOMAIN cpc : returnSkipped(c) /\ UNCHANGED <<batchVars, retryVars, calVars, dataVars>>
    \/ \E c \in DOMAIN cpc : fetchClients(c) /\ UNCHANGED <<batchVars, retryVars, calVars, dataVars>>
    \/ \E c \in DOMAIN cpc : clearContents(c) /\ UNCHANGED <<batchVars, retryVars, calVars, dataVars>>
    \/ \E c \in DOMAIN cpc : setTimestamp(c) /\ UNCHANGED <<batchVars, retryVars, calVars, dataVars>>
    \/ \E c \in DOMAIN cpc : setHeaders(c) /\ UNCHANGED <<batchVars, retryVars, calVars, dataVars>>
    \/ \E c \in DOMAIN cpc : setClientRow(c) /\ UNCHANGED <<batchVars, retryVars, calVars, dataVars>>
    \/ \E c \in DOMAIN cpc : returnSuccess(c) /\ UNCHANGED <<batchVars, retryVars, calVars, dataVars>>
    \/ Tick /\ UNCHANGED <<batchVars, retryVars, calVars, dataVars>>

----------------------------------------------------------------------------
\* processCalendarEventsWithErrorHandling (errorHandling.js:284-444)

\* if (currentRuntime > 240), in seconds
SoftBudget == 240
\* retryOperation(() => createFileMakerRecord(payload), 2, 1000)
WriteMaxRetries == 2
WriteDelayMs == 1000

\* retryOperation(() => CalendarApp...getEvents(startDate, endDate), 2, 500)
FetchMaxRetries == 2
FetchDelayMs == 500

\* seconds an external call (setup, one record write) can take
Durations == {0, 130}

\* a fault of the calendar service
MsgCalendar == <<"Calendar", "service", "error">>

\* CalendarApp.getDefaultCalendar().getEvents(...): the events, or a throw
getEvents(ok) ==
    IF ok THEN [kind |-> "value", value |-> "events", thrown |-> NoMessageValue]
    ELSE [kind |-> "throw", value |-> "", thrown |-> Error(MsgCalendar)]

\* identifiers visible in the catch clause (lines 428-443): the parameters,
\* startTime (line 285) and the catch binding; the consts of the try block
\* (clientMap, ..., events, line 302) are scoped to that block
CatchScope == {"startDate", "endDate", "startTime", "error"}

NoReturn == [eventsFound |-> 0, successful |-> 0, failed |-> 0]

\* 'FileMaker record creation failed: ' + a body whose messages[0].code is 504
MsgDuplicate == MsgFileMaker \o <<"code", "504">>

\* what FileMaker answers to one record write: record created, a fault, or
\* the rejection of a duplicate record (code 504)
WriteOutcomes == {"ok", "fault", "duplicate"}

\* the answers to the successive writes of one event; nothing follows a
\* created record, and a record rejected as duplicate stays a duplicate
WriteScripts ==
    {w \in [1..WriteMaxRetries -> WriteOutcomes] :
        \A k \in 1..(WriteMaxRetries - 1) :
            w[k] \in {"ok", "duplicate"} => w[k + 1] = w[k]}

\* a calendar event: isAllDayEvent(), _isSameDay(start, end), and what each
\* successive createFileMakerRecord call for it meets (no write is made for
\* an all-day or multi-day event)
CalendarEvents ==
    {e \in [allDay : BOOLEAN, sameDay : BOOLEAN, writes : WriteScripts] :
        (e.allDay \/ ~e.sameDay) => e.writes = [k \in 1..WriteMaxRetries |-> "ok"]}

\* the SyntaxError of JSON.parse on a response body that is not JSON
MsgSyntax == <<"Unexpected", "token">>

\* the answers of WriteOutcomes, and a response whose body is not JSON (an
\* error page of a gateway), on which JSON.parse throws (fmpPost.js:15)
AllWriteOutcomes == WriteOutcomes \cup {"garbled"}

\* calendar events whose writes can meet every answer
FaultyCalendarEvents ==
    [allDay : {FALSE}, sameDay : {TRUE}, writes : [1..WriteMaxRetries -> AllWriteOutcomes]]

\* createFileMakerRecord(payload): returns {recordId}, or throws with the
\* response body in the message (fmpPost.js:15-22)
createFileMakerRecord(answer) ==
    IF answer = "ok"
    THEN [kind |-> "value", value |-> "recordId", thrown |-> NoMessageValue]
    ELSE IF answer = "garbled"
    THEN [kind |-> "throw", value |-> "", thrown |-> Error(MsgSyntax)]
    ELSE IF answer = "duplicate"
    THEN [kind |-> "throw", value |-> "", thrown |-> Error(MsgDuplicate)]
    ELSE [kind |-> "throw", value |-> "", thrown |-> Error(MsgFileMaker)]

\* handleFileMakerError (errorHandling.js:453-520): errorType by the code
\* found in the message
handleFileMakerError(m) ==
    IF Includes(m, <<"code", "1708">>) THEN "PARAMETER_VALIDATION_ERROR"
    ELSE IF Includes(m, <<"code", "504">>) THEN "DUPLICATE_RECORD"
    ELSE IF Includes(m, <<"code", "401">>) THEN "AUTHENTICATION_ERROR"
    ELSE "FILEMAKER_ERROR"

\* retryOperation run to completion from the top of its loop: the result,
\* the number of operation() calls and the milliseconds slept
RECURSIVE retryRun(_, _, _, _)
retryRun(script, m, a, d) ==
    IF ~(a <= m)
    THEN [result |-> [kind |-> "value", value |-> Undefined, thrown |-> NoMessageValue],
          calls |-> a - 1, slept |-> 0]
    ELSE IF script[a].kind = "value" \/ LastAttempt(a, m)
    THEN [result |-> script[a], calls |-> a, slept |-> 0]
    ELSE LET rest == retryRun(script, m, a + 1, Backoff(d))
         IN [rest EXCEPT !.slept = @ + d]

\* mutant: the processor without the runtime test of lines 336-339
Processor_NoBudgetCheck(event, runtime, took) ==
    IF event.allDay \/ ~event.sameDay
    THEN [outcome |-> Throws(Error(MsgFiltered)), writeCalls |-> 0, seconds |-> 0]
    ELSE LET run == retryRun([k \in 1..WriteMaxRetries |-> createFileMakerRecord(event.writes[k])],
                             WriteMaxRetries, 1, WriteDelayMs)
             spent == IF run.calls = 2 THEN took[1] + took[2] ELSE took[1]
         IN [outcome |-> IF run.result.kind = "value" THEN ReturnsValue
                         ELSE Throws(run.result.thrown),
             writeCalls |-> run.calls,
             seconds |-> spent + run.slept \div 1000]

\* the item processor, lines 334-388, started when `runtime` seconds have
\* elapsed; took[k] is the time the k-th write attempt takes
Processor(event, runtime, took) ==
    IF runtime > SoftBudget
    THEN [outcome |-> Throws(Error(MsgTimeout)), writeCalls |-> 0, seconds |-> 0]
    ELSE IF event.allDay \/ ~event.sameDay
    THEN [outcome |-> Throws(Error(MsgFiltered)), writeCalls |-> 0, seconds |-> 0]
    ELSE LET run == retryRun([k \in 1..WriteMaxRetries |-> createFileMakerRecord(event.writes[k])],
                             WriteMaxRetries, 1, WriteDelayMs)
             spent == IF run.calls = 2 THEN took[1] + took[2] ELSE took[1]
         IN [outcome |-> IF run.result.kind = "value" THEN ReturnsValue
                         ELSE Throws(run.result.thrown),
             writeCalls |-> run.calls,
             seconds |-> spent + run.slept \div 1000]

\* mutant: the retry is issued without waiting for the first write
WriteAttempts_Concurrent(idx, event, n, runtime, took) ==
    [k \in 1..n |->
        [index |-> idx, attempt |-> k, answer |-> event.writes[k],
         from |-> runtime, to |-> runtime + took[k]]]

\* the createFileMakerRecord calls of one processor invocation (line 384):
\* each starts when the previous one has returned and the delay was slept
WriteAttempts(idx, event, n, runtime, took) ==
    [k \in 1..n |->
        LET from == IF k = 1 THEN runtime
                    ELSE runtime + took[1] + WriteDelayMs \div 1000
        IN [index |-> idx, attempt |-> k, answer |-> event.writes[k],
            from |-> from, to |-> from + took[k]]]

\* lines 285-332: startTime, reference tables, refresh guard, getEvents;
\* then processWithGracefulDegradation(events, processor) is entered
processCalendarEventsWithErrorHandling ==
    /\ pc = "start"
    /\ \E d \in Durations : elapsed' = d
    /\ \E fetch \in [1..FetchMaxRetries -> BOOLEAN] :
          LET run == retryRun([k \in 1..FetchMaxRetries |-> getEvents(fetch[k])],
                              FetchMaxRetries, 1, FetchDelayMs)
          IN IF run.result.kind = "throw"
             THEN \* the fault leaves the try block
                  /\ pc' = "catch"
                  /\ UNCHANGED <<results, maxFailures, i>>
             ELSE /\ results' = EmptyResults(Len(items))
                  /\ maxFailures' = MaxFailuresOf(options, Len(items))
                  /\ i' = 0
                  /\ pc' = "loop"
    /\ UNCHANGED <<items, options, invoked, startedAt, writeLog, calStatus, returned>>

\* one pass of the batch loop over events[i]
processEvent ==
    /\ pc = "loop"
    /\ i < Len(items)
    /\ \E t \in Durations :
          \* the record sink's response time while this event is processed
          LET took == [k \in 1..WriteMaxRetries |-> t]
              p == Processor(items[i + 1], elapsed, took)
          IN /\ LoopBody(p.outcome)
             /\ elapsed' = elapsed + p.seconds
             /\ writeLog' = writeLog \o WriteAttempts(i, items[i + 1], p.writeCalls,
                                                     elapsed, took)
    /\ startedAt' = Append(startedAt, elapsed)
    /\ UNCHANGED <<items, options, maxFailures, calStatus, returned>>

\* the batch loop ends normally
finishBatch ==
    /\ returnResults
    /\ UNCHANGED calVars

\* mutant: SUCCESS as soon as one record was written
StatusOf_AnySuccess(res) ==
    IF res.successful > 0 THEN "SUCCESS" ELSE "PARTIAL_SUCCESS"

\* status: processingResults.failed === 0 ? 'SUCCESS' : 'PARTIAL_SUCCESS'
StatusOf(res) ==
    IF res.failed = 0 THEN "SUCCESS" ELSE "PARTIAL_SUCCESS"

\* lines 390-426: the structured result
returnStatus ==
    /\ pc = "done"
    /\ calStatus = "none"
    /\ calStatus' = StatusOf(results)
    /\ returned' = [eventsFound |-> Len(items), successful |-> results.successful,
                    failed |-> results.failed]
    /\ UNCHANGED <<batchVars, elapsed, startedAt, writeLog>>

\* lines 428-443: the catch clause. Its first statement evaluates `events`;
\* an identifier out of scope raises ReferenceError, which leaves the function
catchBlock ==
    /\ pc = "catch"
    /\ calStatus = "none"
    /\ calStatus' = IF "events" \in CatchScope THEN "ERROR" ELSE "threw"
    /\ UNCHANGED <<batchVars, elapsed, startedAt, writeLog, returned>>

CalIdle ==
    /\ elapsed = 0 /\ startedAt = <<>> /\ writeLog = <<>> /\ calStatus = "none"
    /\ returned = NoReturn

----------------------------------------------------------------------------
\* createFileMakerRecord (fmpPost.js:1-22) with getFileMakerToken and
\* logoutFileMakerToken (auth.js:1-49)

\* what a request to FileMaker can meet: an answer accepting it, an answer
\* rejecting it (muteHttpExceptions: no throw), or a fault of the request
RequestOutcomes == {"ok", "rejected", "fault"}

\* a caller (the batch processor, through retryOperation) calls
\* createFileMakerRecord(recordData)
createRecord ==
    /\ fmpc \in {"idle", "returned", "threw"}
    /\ fmCalls < MaxWrites
    /\ fmCalls' = fmCalls + 1
    /\ fmpc' = "token"
    /\ fmResponse' = "none"
    /\ UNCHANGED <<fmSessions, fmToken, fmLog>>

\* the event the current call writes and the attempt of retryOperation(...,
\* 2, 1000) it is (errorHandling.js:384): a call that threw before the last
\* attempt is followed by one more for the same event
CurrentWrite ==
    IF fmLog = <<>> THEN [event |-> 1, attempt |-> 1]
    ELSE LET last == fmLog[Len(fmLog)]
         IN IF last.ended = "returned" \/ LastAttempt(last.attempt, WriteMaxRetries)
            THEN [event |-> last.event + 1, attempt |-> 1]
            ELSE [event |-> last.event, attempt |-> last.attempt + 1]

\* a call ends: one log entry; the sink created a record when it answered
\* the write request with code 0
EndCall(how) ==
    /\ fmpc' = how
    /\ fmLog' = Append(fmLog, [ended |-> how, open |-> fmSessions',
                               event |-> CurrentWrite.event,
                               attempt |-> CurrentWrite.attempt,
                               created |-> (fmResponse' = "ok")])

\* line 2, auth.js:1-36: getFileMakerToken() opens a session and returns its
\* token, or throws (secret unavailable, authentication rejected)
getFileMakerToken ==
    /\ fmpc = "token"
    /\ fmResponse' = fmResponse
    /\ \E o \in RequestOutcomes :
          IF o = "ok"
          THEN /\ fmToken' = fmCalls
               /\ fmSessions' = fmSessions \cup {fmCalls}
               /\ fmpc' = "post"
               /\ UNCHANGED fmLog
          ELSE /\ fmSessions' = fmSessions
               /\ EndCall("threw")
               /\ UNCHANGED fmToken
    /\ UNCHANGED fmCalls

\* lines 4-11: UrlFetchApp.fetch(createUrl, {... muteHttpExceptions: true});
\* a fault of the request itself is thrown and leaves the function here
postRecord ==
    /\ fmpc = "post"
    /\ \E o \in RequestOutcomes :
          IF o = "fault"
          THEN /\ fmResponse' = fmResponse
               /\ fmSessions' = fmSessions
               /\ EndCall("threw")
          ELSE /\ fmResponse' = o
               /\ fmpc' = "logout"
               /\ UNCHANGED <<fmSessions, fmLog>>
    /\ UNCHANGED <<fmToken, fmCalls>>

\* line 13, auth.js:38-49: logoutFileMakerToken(token, fmConfig) deletes the
\* session, or its request faults and the throw leaves createFileMakerRecord;
\* lines 15-21: recordId for code 0, a throw for any other answer
logoutFileMakerToken ==
    /\ fmpc = "logout"
    /\ fmResponse' = fmResponse
    /\ \E fault \in BOOLEAN :
          IF fault
          THEN /\ fmSessions' = fmSessions
               /\ EndCall("threw")
          ELSE /\ fmSessions' = fmSessions \ {fmToken}
               /\ EndCall(IF fmResponse = "ok" THEN "returned" ELSE "threw")
    /\ UNCHANGED <<fmToken, fmCalls>>

----------------------------------------------------------------------------
\* Text: titles and keys are strings of characters; "1901" stands for a word
\* of four digits, "A" for an upper-case letter

Chars == {"a", "b", "A", "1901"}

Titles == UNION {[1..n -> Chars] : n \in 0..MaxTitleLen}

Lower(c) == IF c = "A" THEN "a" ELSE c

\* String.prototype.toLowerCase
toLowerCase(s) == [k \in 1..Len(s) |-> Lower(s[k])]

\* String(undefined), and the value of a property an object does not have
UndefinedText == <<"undefined">>

\* obj.field
Prop(obj, field) == IF field \in DOMAIN obj THEN obj[field] ELSE UndefinedText

\* truthiness of a string-or-undefined value
Truthy(v) == v # UndefinedText /\ v # <<>>

\* a || b
OrElse(a, b) == IF Truthy(a) THEN a ELSE b

\* the first position at which p occurs in s, 0 when it does not occur
IndexOf(s, p) ==
    LET at == {k \in 0..(Len(s) - Len(p)) : \A j \in 1..Len(p) : s[k + j] = p[j]}
    IN IF at = {} THEN 0 ELSE 1 + CHOOSE k \in at : \A k2 \in at : k <= k2

\* s.replace(p, r) with a string pattern: the first occurrence only
ReplaceFirst(s, p, r) ==
    LET k == IndexOf(s, p)
    IN IF k = 0 THEN s
       ELSE SubSeq(s, 1, k - 1) \o r \o SubSeq(s, k + Len(p), Len(s))

\* s.replace(new RegExp(p, 'gi'), ''): every occurrence, letter case ignored
RECURSIVE RemoveAll(_, _)
RemoveAll(s, p) ==
    IF Len(p) = 0 \/ Len(s) < Len(p) THEN s
    ELSE IF toLowerCase(SubSeq(s, 1, Len(p))) = toLowerCase(p)
    THEN RemoveAll(SubSeq(s, Len(p) + 1, Len(s)), p)
    ELSE <<Head(s)>> \o RemoveAll(Tail(s), p)

\* String.prototype.trim
RECURSIVE Trim(_)
Trim(s) ==
    IF s = <<>> THEN s
    ELSE IF Head(s) = " " THEN Trim(Tail(s))
    ELSE IF s[Len(s)] = " " THEN Trim(SubSeq(s, 1, Len(s) - 1))
    ELSE s

----------------------------------------------------------------------------
\* matchClientFromTitle (clientMap.js:147-155)

\* rows of the person table; keys are lower-cased last names (clientMap.js)
PersonEntries ==
    {[name |-> <<"a">>, uid |-> 1], [name |-> <<"a", "b">>, uid |-> 2],
     [name |-> <<"b">>, uid |-> 3]}

\* person tables: distinct keys, for...in visits them in insertion order
ClientMaps ==
    {m \in UNION {[1..n -> PersonEntries] : n \in 0..MaxPersons} :
        \A j, k \in 1..Len(m) : j # k => m[j].name # m[k].name}

matchClientFromTitle(t, map) ==
    LET lowerTitle == toLowerCase(t)
        hits == {k \in 1..Len(map) : Includes(lowerTitle, map[k].name)}
    IN IF hits = {} THEN NoMatch
       ELSE LET k == CHOOSE k \in hits : \A k2 \in hits : k <= k2
            IN [found |-> TRUE, name |-> map[k].name, uid |-> map[k].uid]

\* retryOperation(() => loadClientMappingFromSheet(), 3, 1000)
LoadMaxRetries == 3
LoadDelayMs == 1000

\* loadClientMappingFromSheet (clientMap.js:1-4, 50-146): the person rows of
\* the sheet; any fault while reading is caught inside and {} is returned
loadClientMappingFromSheet(rows, readOk) ==
    [kind |-> "value", value |-> IF readOk THEN rows ELSE <<>>, thrown |-> NoMessageValue]

\* errorHandling.js:291: const clientMap = retryOperation(...)
loadStep ==
    /\ tpc = "load"
    /\ clientMap' = retryRun([k \in 1..LoadMaxRetries |->
                                 loadClientMappingFromSheet(store, loads[k])],
                             LoadMaxRetries, 1, LoadDelayMs).result.value
    /\ tpc' = "sync"
    /\ UNCHANGED <<title, events, match, eventMatch, summary, lookups, setupVars>>

\* errorHandling.js:298: smartSyncClientsToUIDSheet(). When the sheet was not
\* refreshed today the person rows are replaced wholesale by the clients
\* FileMaker holds now (smartClientSync.js:24-25, 163-184); the clientMap
\* constant of line 291 is not assigned again
syncStep ==
    /\ tpc = "sync"
    /\ \E fresh \in BOOLEAN :
          IF fresh
          THEN UNCHANGED <<store, refreshed>>
          ELSE /\ store' \in ClientMaps
               /\ refreshed' = TRUE
    /\ tpc' = "start"
    /\ UNCHANGED <<title, clientMap, events, match, eventMatch, summary, lookups, loads>>

\* errorHandling.js:349: const match = matchClientFromTitle(title, clientMap)
matchStep ==
    /\ tpc = "start"
    /\ match' = matchClientFromTitle(title, clientMap)
    /\ tpc' = "matched"
    /\ UNCHANGED <<title, clientMap, events, eventMatch, summary, lookups>>

----------------------------------------------------------------------------
\* findUnifiedEventMatch (filemakerSync.js:260-287)

\* keywords, lower-cased by loadUnifiedEventVocabulary (filemakerSync.js:219)
Keywords == {<<"a">>, <<"a", "b">>, <<"b", "a">>}

\* every (entry, keyword) of the vocabulary in table order: the two nested
\* for loops of lines 266-276
RECURSIVE KeywordPairs(_, _, _)
KeywordPairs(evs, e, k) ==
    IF e > Len(evs) THEN <<>>
    ELSE IF k > Len(evs[e].keywords) THEN KeywordPairs(evs, e + 1, 1)
    ELSE <<[entry |-> e, matchedKeyword |-> evs[e].keywords[k],
            keywordLength |-> Len(evs[e].keywords[k])]>>
         \o KeywordPairs(evs, e, k + 1)

\* mutant: a sort that moves a later match in front of an equal earlier one
StaysBefore_Unstable(y, x) == y.keywordLength > x.keywordLength

\* (a, b) => b.keywordLength - a.keywordLength under a stable sort: y stays
\* before a later x unless x is strictly longer
StaysBefore(y, x) == y.keywordLength >= x.keywordLength

\* matches.sort(...) of the first n matches (Array.prototype.sort is stable)
RECURSIVE SortMatches(_, _)
SortMatches(ms, n) ==
    IF n = 0 THEN <<>>
    ELSE LET sorted == SortMatches(ms, n - 1)
             x == ms[n]
             keep == Cardinality({j \in 1..Len(sorted) : StaysBefore(sorted[j], x)})
         IN SubSeq(sorted, 1, keep) \o <<x>> \o SubSeq(sorted, keep + 1, Len(sorted))

findUnifiedEventMatch(t, evs) ==
    LET loweredTitle == toLowerCase(t)
        matches == SelectSeq(KeywordPairs(evs, 1, 1),
                             LAMBDA p : Includes(loweredTitle, p.matchedKeyword))
    IN IF Len(matches) = 0 THEN NoEventMatch
       ELSE LET first == SortMatches(matches, Len(matches))[1]
            IN [found |-> TRUE, entry |-> first.entry,
                matchedKeyword |-> first.matchedKeyword,
                keywordLength |-> first.keywordLength]

\* unifiedSummaryGenerator.js:36 on a title without a person match
eventMatchStep ==
    /\ tpc = "vocabulary"
    /\ eventMatch' = findUnifiedEventMatch(title, events)
    /\ tpc' = "event-matched"
    /\ UNCHANGED <<title, clientMap, events, match, summary, lookups>>

----------------------------------------------------------------------------
\* generateUnifiedSummary (unifiedSummaryGenerator.js:19-61) with
\* generateUnifiedBillingDescription and detectCookCountyCourtroom
\* (filemakerSync.js:294-363)

ClientFirstName == "{Client First Name}"
ClientLastName == "{Client Last Name}"
JudgeLastName == "{Judge Last Name}"
Placeholders == {ClientFirstName, ClientLastName, JudgeLastName}

\* description templates: words and placeholders
Templates ==
    UNION {[1..n -> Placeholders \cup {"with"}] : n \in 1..MaxTemplateLen}

\* what the judge table holds for a courtroom: a judge, nothing, or it
\* cannot be loaded
JudgeLookups == {"judge", "absent", "fault"}

\* detectCookCountyCourtroom(title).judge, '____' when it returns null
JudgeText(t, lookup) ==
    IF ~(\E k \in 1..Len(t) : t[k] = "1901") THEN <<"____">>
    ELSE IF lookup = "judge" THEN <<"Smith">>
    ELSE <<"____">>

\* filemakerSync.js:339-363
generateUnifiedBillingDescription(entry, clientMatch, t, lookup) ==
    LET named ==
            IF clientMatch.found
            THEN ReplaceFirst(
                     ReplaceFirst(entry.description, <<ClientFirstName>>,
                                  OrElse(Prop(clientMatch, "firstName"),
                                         Prop(clientMatch, "matchedName"))),
                     <<ClientLastName>>, OrElse(Prop(clientMatch, "lastName"), <<>>))
            ELSE ReplaceFirst(
                     ReplaceFirst(entry.description, <<ClientFirstName>>, <<"[Client]">>),
                     <<ClientLastName>>, <<>>)
    IN IF entry.isCourtEvent
       THEN ReplaceFirst(named, <<JudgeLastName>>, JudgeText(t, lookup))
       ELSE named

\* lines 23-30: the title the vocabulary is matched on
cleanTitle(t, clientMatch) ==
    IF clientMatch.found /\ Truthy(Prop(clientMatch, "matchedName"))
    THEN Trim(RemoveAll(t, Prop(clientMatch, "matchedName")))
    ELSE t

\* lines 38-53
generateUnifiedSummary(t, clientMatch, evs, lookup) ==
    LET em == findUnifiedEventMatch(cleanTitle(t, clientMatch), evs)
    IN IF ~em.found
       THEN IF clientMatch.found
            THEN <<"Meeting", "with">>
                 \o OrElse(Prop(clientMatch, "firstName"), Prop(clientMatch, "matchedName"))
                 \o OrElse(Prop(clientMatch, "lastName"), <<>>)
            ELSE t
       ELSE generateUnifiedBillingDescription(evs[em.entry], clientMatch, t, lookup)

\* getUnifiedEventFallback (filemakerSync.js:240-251) in the alphabet of the
\* titles: the entries that are not court events, with several keywords and
\* the two client placeholders, then the court entries, with one keyword and
\* the judge placeholder
getUnifiedEventFallback ==
    <<[category |-> "Office Meeting", keywords |-> <<<<"b", "a">>, <<"b">>>>,
       description |-> <<"with", ClientFirstName, ClientLastName>>,
       isCourtEvent |-> FALSE],
      [category |-> "Court", keywords |-> <<<<"a">>>>,
       description |-> <<"with", JudgeLastName>>,
       isCourtEvent |-> TRUE]>>

\* mutant: nothing to match against when the sheet cannot be read
loadUnifiedEventVocabulary_NoFallback(sheetRows, sheetOk) ==
    IF sheetOk THEN sheetRows ELSE <<>>

\* loadUnifiedEventVocabulary (filemakerSync.js:208-235): the rows of the
\* 'Event Types' sheet; a fault while reading it is caught and the built-in
\* table returned
loadUnifiedEventVocabulary(sheetRows, sheetOk) ==
    IF sheetOk THEN sheetRows ELSE getUnifiedEventFallback

NoLookups == [vocabulary |-> "none", judge |-> "none"]

\* title.match(/\b(\d{4})\b/): the title names a courtroom
HasCourtroom(t) == \E k \in 1..Len(t) : t[k] = "1901"

\* errorHandling.js:353: const summary = generateUnifiedSummary(title, match).
\* The vocabulary is loaded inside (line 33); the judge table is loaded only
\* for a court entry and a title with a courtroom (filemakerSync.js:355,296-304)
summaryStep ==
    /\ tpc = "matched"
    /\ \E sheetOk \in BOOLEAN, lookup \in JudgeLookups :
          LET vocabulary == loadUnifiedEventVocabulary(events, sheetOk)
              em == findUnifiedEventMatch(cleanTitle(title, match), vocabulary)
              consulted == /\ em.found
                           /\ vocabulary[em.entry].isCourtEvent
                           /\ HasCourtroom(title)
          IN /\ eventMatch' = em
             /\ summary' = generateUnifiedSummary(title, match, vocabulary, lookup)
             /\ lookups' = [vocabulary |-> IF sheetOk THEN "loaded" ELSE "fault",
                            judge |-> IF consulted THEN lookup ELSE "none"]
    /\ tpc' = "summarised"
    /\ UNCHANGED <<title, clientMap, events, match>>

----------------------------------------------------------------------------
\* _calculateRoundedDuration (calendarUtils.js:32-36). Dates are whole
\* minutes; hours are returned in tenths (0.2 h = 2)

Max(a, b) == IF a >= b THEN a ELSE b

\* mutant: truncation instead of rounding
MathRound_Truncate(num, den) == num \div den

\* Math.round(num / den): the nearest integer, halves towards +Infinity
MathRound(num, den) == (2 * num + den) \div (2 * den)

\* const ms = end - start; const hours = ms / 1000 / 60 / 60;
\* return Math.max(0.2, Math.round(hours * 5) / 5)
calculateRoundedDuration(s, e) ==
    LET ms == (e - s) * 60 * 1000
    IN Max(2, 2 * MathRound(ms * 5, 1000 * 60 * 60))

\* errorHandling.js:351: const duration = _calculateRoundedDuration(start, end)
durationStep ==
    /\ dpc = "start"
    /\ duration' = calculateRoundedDuration(start, end)
    /\ dpc' = "returned"
    /\ UNCHANGED <<start, end>>

FmIdle ==
    /\ fmSessions = {} /\ fmpc = "off" /\ fmToken = 0 /\ fmResponse = "none"
    /\ fmCalls = 0 /\ fmLog = <<>>

TextIdle ==
    /\ title = <<>> /\ clientMap = <<>> /\ events = <<>>
    /\ match = NoMatch /\ eventMatch = NoEventMatch /\ summary = <<>> /\ tpc = "off"
    /\ lookups = NoLookups

DurIdle ==
    /\ start = 0 /\ end = 0 /\ duration = 0 /\ dpc = "off"

\* the value of errorInfo before categorizeError has run
NoErrorInfo == [message |-> <<>>, category |-> "UNKNOWN", severity |-> "MEDIUM", retryable |-> FALSE]

\* words of the messages given to categorizeError: the markers it tests
\* (lines 147-167) and a word it does not know
MessageWords ==
    {"timeout", "execution", "time", "Secret", "Manager", "OAuth", "FileMaker",
     "authentication", "Calendar", "getEvents", "Sheets", "Spreadsheet",
     "network", "fetch", "failed"}

\* const errorInfo = categorizeError(error, context)
categorizeStep ==
    /\ epc = "start"
    /\ errorInfo' = categorizeError(error)
    /\ epc' = "returned"
    /\ UNCHANGED error

ErrIdle == error = <<>> /\ errorInfo = NoErrorInfo /\ epc = "off"

SetupIdle == store = <<>> /\ loads = <<>> /\ refreshed = FALSE

MoreIdle == ErrIdle /\ SetupIdle

DataIdle == FmIdle /\ TextIdle /\ DurIdle /\ MoreIdle

----------------------------------------------------------------------------
\* Specifications

\* a call of processWithGracefulDegradation on any item list and options
Init ==
    /\ items \in UNION {[1..n -> ProcessorBehaviours] : n \in 0..MaxItems}
    /\ options \in OptionValues
    /\ maxFailures = 0
    /\ results = EmptyResults(0)
    /\ i = 0
    /\ pc = "start"
    /\ invoked = <<>>
    /\ RetryIdle
    /\ SyncIdle
    /\ CalIdle
    /\ DataIdle

Next ==
    \/ processWithGracefulDegradation /\ UNCHANGED <<retryVars, syncVars, calVars, dataVars>>
    \/ processItem /\ UNCHANGED <<retryVars, syncVars, calVars, dataVars>>
    \/ returnResults /\ UNCHANGED <<retryVars, syncVars, calVars, dataVars>>

Spec == Init /\ [][Next]_vars

\* a call of retryOperation on any operation, maxRetries and delayMs
InitRetry ==
    /\ operation \in [1..MaxRetriesArg -> OperationOutcomes]
    /\ maxRetries \in -1..MaxRetriesArg    \* a ceiling of 0 or below included
    /\ initialDelay \in DelayValues
    /\ delayMs = initialDelay
    /\ attempt = 0
    /\ rpc = "start"
    /\ rresult = NoResult
    /\ trace = <<>>
    /\ BatchIdle
    /\ SyncIdle
    /\ CalIdle
    /\ DataIdle

NextRetry ==
    \/ retryOperation /\ UNCHANGED <<batchVars, syncVars, calVars, dataVars>>
    \/ retryAttempt /\ UNCHANGED <<batchVars, syncVars, calVars, dataVars>>
    \/ retrySleep /\ UNCHANGED <<batchVars, syncVars, calVars, dataVars>>

SpecRetry == InitRetry /\ [][NextRetry]_vars

\* several users run smartSyncClientsToUIDSheet concurrently, no faults
InitSyncUsers == InitSync(Callers, FALSE) /\ BatchIdle /\ RetryIdle /\ CalIdle /\ DataIdle

SpecSync == InitSyncUsers /\ [][NextSync]_vars

\* one user calls smartSyncClientsToUIDSheet repeatedly, no faults
InitSolo == InitSync({1}, FALSE) /\ BatchIdle /\ RetryIdle /\ CalIdle /\ DataIdle

SpecSolo == InitSolo /\ [][NextSync]_vars

\* one user, and any external call may fault
InitSoloFaults == InitSync({1}, TRUE) /\ BatchIdle /\ RetryIdle /\ CalIdle /\ DataIdle

SpecSoloFaults == InitSoloFaults /\ [][NextSync]_vars

\* a run of processCalendarEventsWithErrorHandling over any list of events
InitCal ==
    /\ items \in UNION {[1..n -> CalendarEvents] : n \in 0..MaxEvents}
    /\ options = DefaultOptions
    /\ maxFailures = 0
    /\ results = EmptyResults(0)
    /\ i = 0
    /\ pc = "start"
    /\ invoked = <<>>
    /\ CalIdle
    /\ RetryIdle
    /\ SyncIdle
    /\ DataIdle

NextCal ==
    \/ processCalendarEventsWithErrorHandling /\ UNCHANGED <<retryVars, syncVars, dataVars>>
    \/ processEvent /\ UNCHANGED <<retryVars, syncVars, dataVars>>
    \/ finishBatch /\ UNCHANGED <<retryVars, syncVars, dataVars>>
    \/ returnStatus /\ UNCHANGED <<retryVars, syncVars, dataVars>>
    \/ catchBlock /\ UNCHANGED <<retryVars, syncVars, dataVars>>

SpecCal == InitCal /\ [][NextCal]_vars

\* the same run over a short list of timed events whose writes can meet
\* every answer, a response that is not JSON included
InitCalFaults ==
    /\ items \in UNION {[1..n -> FaultyCalendarEvents] : n \in 0..MaxFaultyEvents}
    /\ options = DefaultOptions
    /\ maxFailures = 0
    /\ results = EmptyResults(0)
    /\ i = 0
    /\ pc = "start"
    /\ invoked = <<>>
    /\ CalIdle
    /\ RetryIdle
    /\ SyncIdle
    /\ DataIdle

SpecCalFaults == InitCalFaults /\ [][NextCal]_vars

\* successive calls of createFileMakerRecord, each request free to fault
InitWrite ==
    /\ fmSessions = {}
    /\ fmpc = "idle"
    /\ fmToken = 0
    /\ fmResponse = "none"
    /\ fmCalls = 0
    /\ fmLog = <<>>
    /\ TextIdle /\ DurIdle /\ MoreIdle
    /\ BatchIdle /\ RetryIdle /\ SyncIdle /\ CalIdle

NextWrite ==
    \/ createRecord /\ UNCHANGED <<batchVars, retryVars, syncVars, calVars, textVars, durVars, moreVars>>
    \/ getFileMakerToken /\ UNCHANGED <<batchVars, retryVars, syncVars, calVars, textVars, durVars, moreVars>>
    \/ postRecord /\ UNCHANGED <<batchVars, retryVars, syncVars, calVars, textVars, durVars, moreVars>>
    \/ logoutFileMakerToken /\ UNCHANGED <<batchVars, retryVars, syncVars, calVars, textVars, durVars, moreVars>>

SpecWrite == InitWrite /\ [][NextWrite]_vars

\* findUnifiedEventMatch on any title and vocabulary
InitVocabulary ==
    /\ title \in Titles
    /\ events \in UNION {[1..n ->
                     [category : {"Office Meeting"},
                      keywords : UNION {[1..k -> Keywords] : k \in 1..MaxKeywords},
                      description : {<<"with">>},
                      isCourtEvent : {FALSE}]] : n \in 0..MaxEntries}
    /\ clientMap = <<>>
    /\ match = NoMatch
    /\ eventMatch = NoEventMatch
    /\ summary = <<>>
    /\ lookups = NoLookups
    /\ tpc = "vocabulary"
    /\ FmIdle /\ DurIdle /\ MoreIdle
    /\ BatchIdle /\ RetryIdle /\ SyncIdle /\ CalIdle

NextVocabulary ==
    eventMatchStep /\ UNCHANGED <<batchVars, retryVars, syncVars, calVars, fmVars, durVars, moreVars>>

SpecVocabulary == InitVocabulary /\ [][NextVocabulary]_vars

\* the processor's text steps on any title, person table and vocabulary of
\* at most one entry
InitSummary ==
    /\ title \in Titles
    /\ clientMap \in ClientMaps
    /\ events \in {<<>>} \cup
                   {<<e>> : e \in {v \in [category : {"Court", "Office Meeting"},
                                           keywords : {<<<<"a">>>>, <<<<"b">>>>},
                                           description : Templates,
                                           isCourtEvent : BOOLEAN] :
                                      v.isCourtEvent <=> v.category = "Court"}}
    /\ match = NoMatch
    /\ eventMatch = NoEventMatch
    /\ summary = <<>>
    /\ lookups = NoLookups
    /\ tpc = "start"
    /\ FmIdle /\ DurIdle /\ MoreIdle
    /\ BatchIdle /\ RetryIdle /\ SyncIdle /\ CalIdle

NextSummary ==
    \/ matchStep /\ UNCHANGED <<batchVars, retryVars, syncVars, calVars, fmVars, durVars, moreVars>>
    \/ summaryStep /\ UNCHANGED <<batchVars, retryVars, syncVars, calVars, fmVars, durVars, moreVars>>

SpecSummary == InitSummary /\ [][NextSummary]_vars

\* the processor's text steps on any title, with or without a person in the
\* table, and a sheet vocabulary of one court entry or one other entry
InitClassify ==
    /\ title \in Titles
    /\ clientMap \in {<<>>, <<[name |-> <<"a">>, uid |-> 1]>>}
    /\ events \in {<<>>,
                   <<[category |-> "Court", keywords |-> <<<<"b">>>>,
                      description |-> <<JudgeLastName, "with">>, isCourtEvent |-> TRUE]>>,
                   <<[category |-> "Office Meeting", keywords |-> <<<<"b">>>>,
                      description |-> <<"with", ClientFirstName>>, isCourtEvent |-> FALSE]>>}
    /\ match = NoMatch
    /\ eventMatch = NoEventMatch
    /\ summary = <<>>
    /\ lookups = NoLookups
    /\ tpc = "start"
    /\ FmIdle /\ DurIdle /\ MoreIdle
    /\ BatchIdle /\ RetryIdle /\ SyncIdle /\ CalIdle

SpecClassify == InitClassify /\ [][NextSummary]_vars

\* the setup of a run and the person match of one event, on any sheet, any
\* faults of its successive reads and any title
InitSetup ==
    /\ store \in ClientMaps
    /\ loads \in [1..LoadMaxRetries -> BOOLEAN]
    /\ refreshed = FALSE
    /\ title \in Titles
    /\ clientMap = <<>>
    /\ events = <<>>
    /\ match = NoMatch
    /\ eventMatch = NoEventMatch
    /\ summary = <<>>
    /\ lookups = NoLookups
    /\ tpc = "load"
    /\ ErrIdle
    /\ FmIdle /\ DurIdle
    /\ BatchIdle /\ RetryIdle /\ SyncIdle /\ CalIdle

NextSetup ==
    \/ loadStep /\ UNCHANGED <<batchVars, retryVars, syncVars, calVars, fmVars, durVars, errVars>>
    \/ syncStep /\ UNCHANGED <<batchVars, retryVars, syncVars, calVars, fmVars, durVars, errVars>>
    \/ matchStep /\ UNCHANGED <<batchVars, retryVars, syncVars, calVars, fmVars, durVars, moreVars>>

SpecSetup == InitSetup /\ [][NextSetup]_vars

\* categorizeError on any message made of the words it tests
InitCategorize ==
    /\ error \in UNION {[1..n -> MessageWords] : n \in 0..MaxMessageLen}
    /\ errorInfo = NoErrorInfo
    /\ epc = "start"
    /\ SetupIdle
    /\ FmIdle /\ TextIdle /\ DurIdle
    /\ BatchIdle /\ RetryIdle /\ SyncIdle /\ CalIdle

NextCategorize ==
    categorizeStep /\ UNCHANGED <<batchVars, retryVars, syncVars, calVars, fmVars, textVars, durVars, setupVars>>

SpecCategorize == InitCategorize /\ [][NextCategorize]_vars

\* _calculateRoundedDuration on any event of a whole number of minutes
InitDuration ==
    /\ start \in {0, 1}
    /\ end \in start..(start + MaxMinutes)
    /\ duration = 0
    /\ dpc = "start"
    /\ FmIdle /\ TextIdle /\ MoreIdle
    /\ BatchIdle /\ RetryIdle /\ SyncIdle /\ CalIdle

NextDuration ==
    durationStep /\ UNCHANGED <<batchVars, retryVars, syncVars, calVars, fmVars, textVars, moreVars>>

SpecDuration == InitDuration /\ [][NextDuration]_vars



----------------------------------------------------------------------------
\* Properties of processWithGracefulDegradation (specification Spec)

\* the processor signals an intentional skip: null, or 'Event filtered out'
IsFiltered(b) ==
    \/ b.kind = "null"
    \/ b.kind = "throw" /\ b.thrown.hasMessage /\ Includes(b.thrown.message, FilteredMarker)

\* a real fault: any other thrown value
IsFault(b) == b.kind = "throw" /\ ~IsFiltered(b)

StatusCount(st) ==
    Cardinality({k \in 1..Len(results.results) : results.results[k].status = st})

\* C1: in the returned result successful + failed + skipped = total and the
\* per-item outcome list has total entries, also after an early stop on the
\* failure quota.
C1_CountsSumToTotal ==
    pc = "done" =>
        /\ results.successful + results.failed + results.skipped = results.total
        /\ Len(results.results) = results.total

\* C2: a fault thrown for item i, whatever the thrown value, is recorded as
\* the outcome of item i only; while the quota is not exceeded the processor
\* is still invoked on item i+1; the function never throws to its caller.
C2_FaultIsolated ==
    /\ pc # "threw"
    /\ \A k \in 1..Len(invoked) :
          (IsFault(items[k]) /\ (k < Len(invoked) \/ pc = "done")) =>
              /\ k <= Len(results.results)
              /\ results.results[k] = [index |-> k - 1, status |-> "failed"]
              /\ (pc = "done" /\ k < Len(items) /\ Len(invoked) = k)
                    => ExcessiveFailures(options, results.failed, maxFailures)

\* C3: with default options the items are processed in input order; the
\* processor is invoked only while failed <= ceil(total * 0.5); the loop
\* stops exactly when failed first exceeds that quota, so every result has
\* failed <= ceil(total * 0.5) + 1.
C3_DefaultQuota ==
    options = DefaultOptions =>
        /\ invoked = [k \in 1..Len(invoked) |-> k - 1]
        /\ (pc = "loop" /\ i < Len(items)) => results.failed <= CeilHalf(Len(items))
        /\ pc = "done" =>
              /\ results.failed <= CeilHalf(Len(items)) + 1
              /\ Len(invoked) < Len(items) => results.failed = CeilHalf(Len(items)) + 1
              /\ results.failed > CeilHalf(Len(items)) =>
                    /\ results.results[Len(results.results)].status = "failed"
                    /\ Len(invoked) = Len(results.results)

C3_Witness ==
    /\ pc = "done"
    /\ options = DefaultOptions
    /\ Len(invoked) < Len(items)
    /\ results.failed = CeilHalf(Len(items)) + 1

\* C4: an intentionally filtered item (null, or 'Event filtered out') adds
\* one to skipped, is never counted in failed, never appears in errors and is
\* never the item at which the batch stops early.
C4_SkipNeverFails ==
    /\ \A k \in 1..Len(results.results) :
          IsFiltered(items[results.results[k].index + 1])
              <=> results.results[k].status = "skipped"
    /\ results.skipped = StatusCount("skipped")
    /\ results.failed = StatusCount("failed")
    /\ \A k \in 1..Len(results.errors) :
          ~IsFiltered(items[results.errors[k].index + 1])
    /\ (pc = "done" /\ Len(invoked) < Len(items)) =>
          ~IsFiltered(items[Len(invoked)])

C4_Witness ==
    /\ pc = "done"
    /\ Len(invoked) < Len(items)
    /\ \E k \in 1..Len(invoked) : items[k] = Throws(Error(MsgFiltered))
    /\ results.skipped >= 1
    /\ results.failed >= 2

----------------------------------------------------------------------------
\* Properties of retryOperation (specification SpecRetry)

Failed(k) == operation[k].kind = "throw"

Sleeps == {p \in 1..Len(trace) : trace[p].ev = "sleep"}

\* C9: for maxRetries >= 1 the operation is invoked at most maxRetries times,
\* every invocation before the last one made has failed, a return hands back
\* the value of the first successful attempt, and a throw happens only after
\* maxRetries failed attempts and carries the error of the last attempt.
C9_RetryContract ==
    maxRetries >= 1 =>
        /\ Calls <= maxRetries
        /\ \A k \in 1..(Calls - 1) : Failed(k)
        /\ rpc \in {"try", "sleep"} => \A k \in 1..Calls : Failed(k)
        /\ rpc = "returned" =>
              Calls >= 1 /\ ~Failed(Calls) /\ rresult = operation[Calls]
        /\ rpc = "threw" =>
              Calls = maxRetries /\ Failed(Calls) /\ rresult = operation[Calls]

\* the scenario of testSuite.js:678-695: two failures, then success
C9_Witness ==
    /\ maxRetries = 3
    /\ rpc = "returned"
    /\ Calls = 3
    /\ rresult.value = "success"

\* C10: a sleep happens only between a failed attempt and the next attempt,
\* the k-th sleep lasts delayMs * 2^(k-1), and a finished run with n >= 1
\* attempts has slept exactly n - 1 times.
C10_BackoffSchedule ==
    /\ \A p \in Sleeps :
          /\ p > 1
          /\ trace[p - 1].ev = "call" /\ ~trace[p - 1].ok
          /\ p < Len(trace) => trace[p + 1].ev = "call"
          /\ p = Len(trace) => rpc = "try"
          /\ trace[p].ms = initialDelay * 2 ^ (Cardinality({q \in Sleeps : q < p}))
    /\ (rpc \in {"returned", "threw"} /\ Calls >= 1) =>
          Cardinality(Sleeps) = Calls - 1

C10_Witness ==
    /\ rpc = "threw"
    /\ Calls = 3
    /\ Cardinality(Sleeps) = 2
    /\ trace[4].ms = 2 * initialDelay

----------------------------------------------------------------------------
\* Properties of smartSyncClientsToUIDSheet

\* (year, month, day) of the local calendar day of instant t
DateFields(t) == Calendar[LocalDay(DateOf(t)) + 1]

\* C6 (specification SpecSync): whatever the interleaving of the callers'
\* steps, syncClientsToUIDSheetWithTimestamp is executed at most once on
\* any one calendar day.
C6_AtMostOneRefreshPerDay ==
    \A d \in DOMAIN refreshLog : refreshLog[d] <= 1

\* C7 (specification SpecSolo): a single caller without faults is answered
\* on calendar-date equality alone: stored date = today gives SKIPPED and no
\* refresh, whatever the age of the timestamp; no timestamp or another date
\* gives exactly one refresh and SUCCESS; a later call on the day of that
\* refresh gives SKIPPED.
C7_DateEqualityDecides ==
    \A c \in DOMAIN log : \A k \in 1..Len(log[c]) :
        LET e == log[c][k]
            sameDate == /\ e.before.type = "date"
                        /\ DateFields(e.before.t) = DateFields(e.today)
        IN /\ sameDate => (e.status = "SKIPPED" /\ e.refreshes = 0)
           /\ ~sameDate => (e.status = "SUCCESS" /\ e.refreshes = 1)
           /\ \A j \in 1..(k - 1) :
                 (/\ log[c][j].status = "SUCCESS"
                  /\ DateFields(log[c][j].after.t) = DateFields(e.today))
                    => e.status = "SKIPPED"

\* a timestamp of the previous date, less than a day old, is refreshed, and
\* the next call that day is skipped
C7_Witness ==
    \E c \in DOMAIN log :
        /\ Len(log[c]) = 2
        /\ log[c][1].before.type = "date"
        /\ log[c][1].today - log[c][1].before.t < TicksPerDay
        /\ log[c][1].status = "SUCCESS"
        /\ log[c][2].status = "SKIPPED"
        /\ DateFields(log[c][2].today) = DateFields(log[c][1].after.t)

\* C8 (specification SpecSoloFaults): a call during which reading the
\* timestamp or a step of the refresh faulted returns ERROR and leaves cell
\* A1 as it was before the call.
C8_FaultLeavesTimestamp ==
    \A c \in DOMAIN log : \A k \in 1..Len(log[c]) :
        log[c][k].faulted =>
            /\ log[c][k].status = "ERROR"
            /\ log[c][k].after = log[c][k].before

----------------------------------------------------------------------------
\* Properties of processCalendarEventsWithErrorHandling (specification SpecCal)

\* C5: once more than 240 s have elapsed at the start of an item, no later
\* item is started, and the item stopped by the budget is reported apart
\* from the ordinary failures: it is not counted in failed.
C5_BudgetAbortsLoop ==
    \A k \in 1..Len(startedAt) :
        startedAt[k] > SoftBudget =>
            /\ Len(startedAt) = k
            /\ \A r \in 1..Len(results.results) :
                  results.results[r].index = k - 1 =>
                      results.results[r].status # "failed"

\* C11: when a fault escapes the setup steps (fetching the events fails on
\* every retry) the function does not throw: it returns an object with
\* status ERROR.
C11_SetupFaultReturnsError ==
    (pc = "catch" /\ calStatus # "none") => calStatus = "ERROR"

\* C12: when the batch loop completes, the returned status is SUCCESS
\* exactly when no item failed and PARTIAL_SUCCESS as soon as one item
\* failed (also when all failed or the batch stopped early), and the returned
\* successful and failed counts are those of the batch result.
C12_StatusFromFailed ==
    (pc = "done" /\ calStatus # "none") =>
        /\ calStatus = "SUCCESS" <=> StatusCount("failed") = 0
        /\ calStatus = "PARTIAL_SUCCESS" <=> StatusCount("failed") >= 1
        /\ returned.successful = results.successful
        /\ returned.failed = results.failed
        /\ returned.failed = StatusCount("failed")

\* every event failed and the batch stopped early: PARTIAL_SUCCESS
C12_Witness ==
    /\ pc = "done"
    /\ calStatus = "PARTIAL_SUCCESS"
    /\ Len(invoked) < Len(items)
    /\ results.successful = 0
    /\ returned.failed = Len(invoked)

\* the last write made for event idx was rejected as a duplicate record
DuplicateRejected(idx) ==
    \E k \in 1..Len(writeLog) :
        /\ writeLog[k].index = idx
        /\ writeLog[k].answer = "duplicate"
        /\ \A j \in (k + 1)..Len(writeLog) : writeLog[j].index # idx

\* C13: an event whose write is rejected with the duplicate-record code 504
\* is treated as already existing: its outcome is not failed, it adds
\* nothing to the failed count (and so to the quota) nor to errors.
C13_DuplicateNotFailure ==
    /\ \A r \in 1..Len(results.results) :
          DuplicateRejected(results.results[r].index) =>
              results.results[r].status # "failed"
    /\ \A k \in 1..Len(results.errors) :
          handleFileMakerError(results.errors[k].error.message) # "DUPLICATE_RECORD"
    /\ results.failed =
          Cardinality({r \in 1..Len(results.results) :
                          /\ results.results[r].status = "failed"
                          /\ ~DuplicateRejected(results.results[r].index)})

\* C14: within one invocation the record writes happen in input order and
\* one at a time: a write starts only after the previous one has returned,
\* every write for event i has returned before the processor starts on a
\* later event, and the outcome list is in increasing index order.
C14_WritesSequential ==
    /\ \A k \in 1..(Len(writeLog) - 1) :
          /\ writeLog[k].to <= writeLog[k + 1].from
          /\ \/ writeLog[k].index < writeLog[k + 1].index
             \/ /\ writeLog[k].index = writeLog[k + 1].index
                /\ writeLog[k + 1].attempt = writeLog[k].attempt + 1
    /\ \A k \in 1..Len(writeLog) : \A j \in 1..Len(startedAt) :
          j - 1 > writeLog[k].index => writeLog[k].to <= startedAt[j]
    /\ \A k \in 1..Len(writeLog) :
          /\ writeLog[k].index + 1 <= Len(startedAt)
          /\ startedAt[writeLog[k].index + 1] <= writeLog[k].from
    /\ \A r \in 1..Len(results.results) : results.results[r].index = r - 1

\* two events written, the first slowly, the second at its second attempt
C14_Witness ==
    /\ calStatus = "SUCCESS"
    /\ Len(writeLog) = 3
    /\ writeLog[1].index = 0 /\ writeLog[2].index = 1 /\ writeLog[3].index = 1
    /\ writeLog[1].to > writeLog[1].from
    /\ results.successful = 2

----------------------------------------------------------------------------
\* Properties of createFileMakerRecord (specification SpecWrite)

\* C18: every session token obtained by createFileMakerRecord is logged out
\* before the function returns or throws, whether the write succeeds, is
\* rejected, or the write request itself faults.
C18_TokenAlwaysLoggedOut ==
    \A k \in 1..Len(fmLog) : fmLog[k].open = {}

----------------------------------------------------------------------------
\* Properties of _calculateRoundedDuration (specification SpecDuration)

\* C16: for a duration of m >= 0 whole minutes the result is
\* max(0.2, round(m / 12) * 0.2), halves rounded up: a whole number of 0.2
\* units, at least one unit, non-decreasing in m, and 0.2, 0.2, 0.2, 0.4,
\* 0.6, 0.6, 1.0 for m = 5, 12, 15, 18, 30, 36, 60.
C16_RoundedDuration ==
    dpc = "returned" =>
        LET m == end - start
        IN /\ \E k \in 0..m : /\ 12 * k - 6 <= m /\ m < 12 * k + 6
                              /\ duration = Max(2, 2 * k)
           /\ duration % 2 = 0
           /\ duration >= 2
           /\ \A m2 \in 0..m : calculateRoundedDuration(0, m2) <= duration
           /\ m \in {5, 12, 15} => duration = 2
           /\ m = 18 => duration = 4
           /\ m \in {30, 36} => duration = 6
           /\ m = 60 => duration = 10

\* 30 minutes are 2.5 units: the half is rounded up to 0.6 h
C16_Witness ==
    dpc = "returned" /\ end - start = 30 /\ duration = 6

----------------------------------------------------------------------------
\* Properties of the text steps (specifications SpecSummary, SpecVocabulary)

\* the rows of the person table whose key occurs in the title, case ignored
MatchingKeys ==
    {k \in 1..Len(clientMap) :
        Includes(toLowerCase(title), toLowerCase(clientMap[k].name))}

\* C15 (SpecSummary): matchClientFromTitle returns null when no key occurs
\* in the title as a case-insensitive substring, and otherwise the entry
\* whose key is the longest of the matching keys, whatever the insertion
\* order of the table.
C15_LongestKeyWins ==
    tpc = "matched" =>
        /\ MatchingKeys = {} <=> ~match.found
        /\ match.found =>
              /\ \E k \in MatchingKeys :
                    match.name = clientMap[k].name /\ match.uid = clientMap[k].uid
              /\ \A k \in MatchingKeys : Len(clientMap[k].name) <= Len(match.name)

\* the (entry, keyword) pairs whose keyword occurs in the lower-cased title
OccurringKeywords ==
    {p \in (1..Len(events)) \X (1..MaxKeywords + 1) :
        /\ p[2] <= Len(events[p[1]].keywords)
        /\ Includes(toLowerCase(title), events[p[1]].keywords[p[2]])}

\* C19 (SpecVocabulary): findUnifiedEventMatch returns null when no keyword
\* of any entry occurs in the lower-cased title, and otherwise the entry
\* owning the longest occurring keyword over all entries; among keywords of
\* that length, the first in table order (entry, then keyword).
C19_LongestKeywordFirstMet ==
    tpc = "event-matched" =>
        /\ OccurringKeywords = {} <=> ~eventMatch.found
        /\ eventMatch.found =>
              \E p \in OccurringKeywords :
                 LET kw(q) == events[q[1]].keywords[q[2]]
                 IN /\ eventMatch.entry = p[1]
                    /\ eventMatch.matchedKeyword = kw(p)
                    /\ \A q \in OccurringKeywords :
                          /\ Len(kw(q)) <= Len(kw(p))
                          /\ Len(kw(q)) = Len(kw(p)) =>
                                (p[1] < q[1] \/ (p[1] = q[1] /\ p[2] <= q[2]))

\* two keywords of the longest length occur, in different entries, after a
\* shorter one: the first of the two longest is returned
C19_Witness ==
    /\ tpc = "event-matched"
    /\ Len(events) = 2
    /\ events[1].keywords = <<<<"a">>, <<"b", "a">>>>
    /\ events[2].keywords = <<<<"a", "b">>>>
    /\ title = <<"A", "b", "a">>
    /\ eventMatch.entry = 1
    /\ eventMatch.matchedKeyword = <<"b", "a">>

\* C17 (SpecSummary): when a vocabulary entry matched, the summary holds no
\* unsubstituted placeholder, whatever the entry (court or not, any number
\* of placeholder occurrences), the person match and the judge lookup.
C17_NoPlaceholderLeft ==
    (tpc = "summarised" /\ eventMatch.found) =>
        \A k \in 1..Len(summary) : summary[k] \notin Placeholders

\* C20 (SpecSummary): when matchClientFromTitle matched a person, the
\* vocabulary is matched on the title with every case-insensitive
\* occurrence of the person's key removed, so a keyword that occurs only
\* inside the key produces no vocabulary match.
C20_KeyRemovedBeforeVocabulary ==
    (tpc = "summarised" /\ match.found) =>
        /\ eventMatch = findUnifiedEventMatch(Trim(RemoveAll(title, match.name)),
                                              loadUnifiedEventVocabulary(events, lookups.vocabulary = "loaded"))
        /\ eventMatch.found =>
              Includes(toLowerCase(RemoveAll(title, match.name)), eventMatch.matchedKeyword)

----------------------------------------------------------------------------
\* Properties of categorizeError (specification SpecCategorize)

\* the categories in the order of their tests, each with its markers
CategoryMarkers ==
    <<[category |-> "TIMEOUT", markers |-> {<<"timeout">>, <<"execution", "time">>}],
      [category |-> "SECRET_MANAGER_ERROR", markers |-> {<<"Secret", "Manager">>, <<"OAuth">>}],
      [category |-> "FILEMAKER_ERROR", markers |-> {<<"FileMaker">>, <<"authentication">>}],
      [category |-> "CALENDAR_ERROR", markers |-> {<<"Calendar">>, <<"getEvents">>}],
      [category |-> "SHEETS_ERROR", markers |-> {<<"Sheets">>, <<"Spreadsheet">>}],
      [category |-> "NETWORK_ERROR", markers |-> {<<"network">>, <<"fetch">>}]>>

\* the first category one of whose markers occurs in the message
FirstMatch(m) ==
    LET hits == {k \in 1..Len(CategoryMarkers) :
                    \E mk \in CategoryMarkers[k].markers : Includes(m, mk)}
    IN IF hits = {} THEN "PROCESSING_ERROR"
       ELSE CategoryMarkers[CHOOSE k \in hits : \A k2 \in hits : k <= k2].category

\* C21: categorizeError gives every error the one category picked by
\* first-match precedence over its message; the severity is HIGH for every
\* named category (timeout, secret-access, record-store, event-source,
\* reference-data-source, network) and MEDIUM only for the catch-all.
C21_NamedCategoriesHigh ==
    epc = "returned" =>
        /\ errorInfo.category = FirstMatch(error)
        /\ errorInfo.severity = "HIGH" <=> errorInfo.category # "PROCESSING_ERROR"
        /\ errorInfo.severity \in {"HIGH", "MEDIUM"}

\* C21 (amended): first-match precedence as claimed; the severity is HIGH
\* for the timeout, secret-access, record-store, event-source and
\* reference-data-source categories and MEDIUM for the network category and
\* for the catch-all; 'FileMaker authentication failed' is FILEMAKER_ERROR,
\* HIGH, retryable.
C21_SeverityByCategory ==
    epc = "returned" =>
        /\ errorInfo.category = FirstMatch(error)
        /\ errorInfo.severity = "MEDIUM" <=>
              errorInfo.category \in {"NETWORK_ERROR", "PROCESSING_ERROR"}
        /\ errorInfo.severity \in {"HIGH", "MEDIUM"}
        /\ error = <<"FileMaker", "authentication", "failed">> =>
              /\ errorInfo.category = "FILEMAKER_ERROR"
              /\ errorInfo.severity = "HIGH"
              /\ errorInfo.retryable

\* a message with a network marker alone has been categorized
C21_Witness ==
    /\ epc = "returned"
    /\ error = <<"network", "failed">>
    /\ errorInfo.category = "NETWORK_ERROR"
    /\ errorInfo.severity = "MEDIUM"

----------------------------------------------------------------------------
\* retryOperation for every ceiling (specification SpecRetry)

\* C27: for every maxRetries, 0 and negative values included, retryOperation
\* either returns a value that an invocation of the operation returned or
\* throws the error of an invocation; it never returns without the operation
\* having succeeded.
C27_ReturnsOnlyOperationValue ==
    /\ rpc = "returned" =>
          Calls >= 1 /\ ~Failed(Calls) /\ rresult = operation[Calls]
    /\ rpc = "threw" =>
          Calls >= 1 /\ Failed(Calls) /\ rresult = operation[Calls]

----------------------------------------------------------------------------
\* An explicit failure ceiling (specification Spec)

\* C28: with options.maxFailures = n for any n >= 0, n = 0 included, and
\* stopOnExcessiveFailures not disabled, the processor is invoked only while
\* failed <= n, so no result reports more than n + 1 failed outcomes; with
\* stopOnExcessiveFailures = false a returned result covers every item.
C28_ExplicitCeiling ==
    options.hasMaxFailures =>
        /\ stopOnExcessiveFailures(options) =>
              /\ (pc = "loop" /\ i < Len(items)) => results.failed <= options.maxFailures
              /\ results.failed <= options.maxFailures + 1
        /\ (~stopOnExcessiveFailures(options) /\ pc = "done") =>
              Len(invoked) = Len(items)

----------------------------------------------------------------------------
\* Timestamp and rows of the UID_Map sheet (specification SpecSoloFaults)

\* C26: in every reachable state of the sheet, the states in the middle of
\* a refresh and after a refresh that faulted part-way included, a
\* lastRefreshTimestamp carrying today's date implies that the sheet holds
\* the header and every person row of the most recent refresh.
C26_FreshImpliesAllRows ==
    (/\ TimestampOf(sheet.A1) # Null
     /\ isSameDay(DateOf(now), ParseDate(TimestampOf(sheet.A1))))
        => sheet.header /\ sheet.rows = 1..NumClients

----------------------------------------------------------------------------
\* The runtime budget and the record writes (specification SpecCal)

----------------------------------------------------------------------------
\* Retry of a record write and the retryable flag (specification SpecCalFaults)

\* the error a write answered by `answer` throws is classified retryable
RetryableAnswer(answer) ==
    categorizeError(createFileMakerRecord(answer).thrown.message).retryable

\* C22: a record write that fails is attempted again exactly when its error
\* is classified retryable: a retryable fault is followed by a second
\* attempt, a non-retryable fault (timeout-shaped or unclassified) fails the
\* event after a single attempt.
C22_RetryFollowsRetryable ==
    \A k \in 1..Len(writeLog) :
        (writeLog[k].attempt = 1 /\ writeLog[k].answer # "ok") =>
            (RetryableAnswer(writeLog[k].answer) <=>
                /\ k < Len(writeLog)
                /\ writeLog[k + 1].index = writeLog[k].index
                /\ writeLog[k + 1].attempt = 2)

----------------------------------------------------------------------------
\* Records created per event (specification SpecWrite)

\* the calls for event e in which the sink created a record
RecordsCreated(e) == {k \in 1..Len(fmLog) : fmLog[k].event = e /\ fmLog[k].created}

\* C25: at most one record is created in the sink for each input event,
\* under every fault pattern of the write path, a fault raised after the
\* sink accepted the record and before createFileMakerRecord returned
\* included.
C25_AtMostOneRecordPerEvent ==
    \A k \in 1..Len(fmLog) : Cardinality(RecordsCreated(fmLog[k].event)) <= 1

----------------------------------------------------------------------------
\* Faults of the reference tables while classifying (specification SpecClassify)

----------------------------------------------------------------------------
\* The person table of a run (specification SpecSetup)

\* C24: when the first read of the person table faults and a later attempt
\* would succeed, retryOperation reads again and the batch works with the
\* table of the sheet, never with an empty table.
C24_TransientLoadFaultRetried ==
    (/\ tpc = "sync"
     /\ ~loads[1]
     /\ \E k \in 2..LoadMaxRetries : loads[k])
        => clientMap = store

\* C29: in a run whose refresh guard performed a refresh, the person match
\* of an event is the match against the person table as that refresh wrote
\* it, not against the table loaded before the refresh.
C29_MatchUsesRefreshedTable ==
    (tpc = "matched" /\ refreshed) => match = matchClientFromTitle(title, store)

====
